---- MODULE Spec2Model ----
(***************************************************************************)
(* Model of gen_icons.py: load_font, make_icon and generate_all.           *)
(*                                                                         *)
(* Units.  The source computes with floats; the model keeps the same       *)
(* quantities as exact integers:                                           *)
(*   target_height   in hundredths of a pixel (px * 0.78 -> px * 78),      *)
(*   x, y and every draw position in half pixels ((px - w) / 2 -> px - w). *)
(* For 1 <= px < 1200 the float results of lines 67, 68, 77 and 79 equal   *)
(* the exact ones, so nothing is lost by this.                             *)
(*                                                                         *)
(* The imaging library is the environment: which font files are installed, *)
(* and what bounding box the glyph has in a font, are drawn in Init.       *)
(***************************************************************************)
EXTENDS Integers, Sequences, FiniteSets, TLC

\* ------------------------------------------------------------------ bounds
\* Direct calls make_icon(px) are made for px in 1..MaxPx.
MaxPx == 50
\* A scalable font's glyph is 0.6 * 2^k em wide, k in 0..MaxStretch.
MaxStretch == 4
\* The built-in fallback font is a bitmap of 6k x 11k pixels, k in 1..MaxBuiltin.
MaxBuiltin == 2
\* load_font is called directly with sizes 0..MaxFontSize.
MaxFontSize == 3

\* ------------------------------------------------------- design tokens
BG_COLOR == <<8, 8, 8>>
FG_COLOR == <<240, 234, 218>>
SHADOW_COLOR == <<180, 140, 80, 120>>
\* PADDING = 0.11, in hundredths
PADDING == 11
\* the overshoot factor 1.05 and the shrink factor 0.96, in hundredths
OVERSHOOT == 105
SHRINK == 96
\* range(40)
FIT_TRIES == 40
\* px >= 48, px // 96
SHADOW_MIN_PX == 48
SHADOW_DIV == 96

FONT_CANDIDATES ==
  << "C:\\Windows\\Fonts\\garabd.ttf",
     "C:\\Windows\\Fonts\\timesbd.ttf",
     "C:\\Windows\\Fonts\\georgiab.ttf",
     "C:\\Windows\\Fonts\\georgia.ttf",
     "C:\\Windows\\Fonts\\times.ttf" >>

\* A dict is a sequence of <<key, value>> pairs in insertion order.
ANDROID_ICONS ==
  << <<"android\\app\\src\\main\\res\\mipmap-mdpi\\ic_launcher.png", 48>>,
     <<"android\\app\\src\\main\\res\\mipmap-hdpi\\ic_launcher.png", 72>>,
     <<"android\\app\\src\\main\\res\\mipmap-xhdpi\\ic_launcher.png", 96>>,
     <<"android\\app\\src\\main\\res\\mipmap-xxhdpi\\ic_launcher.png", 144>>,
     <<"android\\app\\src\\main\\res\\mipmap-xxxhdpi\\ic_launcher.png", 192>> >>

IOS_ICONS ==
  << <<"ios\\Runner\\Assets.xcassets\\AppIcon.appiconset\\Icon-App-20x20@1x.png", 20>>,
     <<"ios\\Runner\\Assets.xcassets\\AppIcon.appiconset\\Icon-App-20x20@2x.png", 40>>,
     <<"ios\\Runner\\Assets.xcassets\\AppIcon.appiconset\\Icon-App-20x20@3x.png", 60>>,
     <<"ios\\Runner\\Assets.xcassets\\AppIcon.appiconset\\Icon-App-29x29@1x.png", 29>>,
     <<"ios\\Runner\\Assets.xcassets\\AppIcon.appiconset\\Icon-App-29x29@2x.png", 58>>,
     <<"ios\\Runner\\Assets.xcassets\\AppIcon.appiconset\\Icon-App-29x29@3x.png", 87>>,
     <<"ios\\Runner\\Assets.xcassets\\AppIcon.appiconset\\Icon-App-40x40@1x.png", 40>>,
     <<"ios\\Runner\\Assets.xcassets\\AppIcon.appiconset\\Icon-App-40x40@2x.png", 80>>,
     <<"ios\\Runner\\Assets.xcassets\\AppIcon.appiconset\\Icon-App-40x40@3x.png", 120>>,
     <<"ios\\Runner\\Assets.xcassets\\AppIcon.appiconset\\Icon-App-60x60@2x.png", 120>>,
     <<"ios\\Runner\\Assets.xcassets\\AppIcon.appiconset\\Icon-App-60x60@3x.png", 180>>,
     <<"ios\\Runner\\Assets.xcassets\\AppIcon.appiconset\\Icon-App-76x76@1x.png", 76>>,
     <<"ios\\Runner\\Assets.xcassets\\AppIcon.appiconset\\Icon-App-76x76@2x.png", 152>>,
     <<"ios\\Runner\\Assets.xcassets\\AppIcon.appiconset\\Icon-App-83.5x83.5@2x.png", 167>>,
     <<"ios\\Runner\\Assets.xcassets\\AppIcon.appiconset\\Icon-App-1024x1024@1x.png", 1024>> >>

BASE_DIR == "BASE_DIR"

None == "None"

VARIABLES
  fontFiles,      \* environment: candidate index -> "missing" | "corrupt" | "ok"
  stretch,        \* environment: width class of the scalable fonts
  builtinPx,      \* environment: pixel scale of the built-in font
  entry,          \* which function was called: "generate_all" | "make_icon" | "load_font"
  arg,            \* the argument of a direct call (px of make_icon, size of load_font)
  pc,             \* position in the code
  all_icons, idx, rel_path, size, full_path,            \* generate_all's locals
  px, img, target_height, font_size, font, it, bbox, w, h, x, y,  \* make_icon's locals
  checks, shrinks,  \* history: fit checks and shrink steps of the current make_icon call
  files,          \* the file system under BASE_DIR: path -> content
  saves,          \* history: every img.save attempt, in order
  stdout,         \* what print has written
  result          \* the value returned to a direct caller

envVars == <<fontFiles, stretch, builtinPx, entry, arg>>
driverVars == <<all_icons, idx, rel_path, size, full_path>>
iconVars == <<px, img, target_height, font_size, font, it, bbox, w, h, x, y, checks, shrinks>>
worldVars == <<files, saves, stdout>>
vars == <<envVars, pc, driverVars, iconVars, worldVars, result>>

Status == {"missing", "corrupt", "ok"}
CandidateIx == 1..Len(FONT_CANDIDATES)

Max(a, b) == IF a >= b THEN a ELSE b
Abs(a) == IF a >= 0 THEN a ELSE -a
CeilDiv(a, b) == (a + b - 1) \div b
RECURSIVE Pow2(_)
Pow2(k) == IF k = 0 THEN 1 ELSE 2 * Pow2(k - 1)

\* ------------------------------------------------------------ load_font
\* os.path.exists(path)
exists(i) == fontFiles[i] # "missing"

\* ImageFont.truetype(path, size) raises for an unreadable file and for size <= 0.
truetype_raises(i, sz) == fontFiles[i] = "corrupt" \/ sz <= 0

truetype(i, sz) == [kind |-> "truetype", path |-> FONT_CANDIDATES[i], size |-> sz]

\* ImageFont.load_default(): the built-in font, which has no file and no size
load_default == [kind |-> "default"]

\* load_font without its try/except: the first existing candidate's failure
\* reaches the caller.
RECURSIVE load_font_from_uncaught(_, _)
load_font_from_uncaught(i, sz) ==
  IF i > Len(FONT_CANDIDATES) THEN load_default
  ELSE IF exists(i)
       THEN (IF truetype_raises(i, sz)
             THEN [kind |-> "raised", path |-> FONT_CANDIDATES[i], size |-> sz]
             ELSE truetype(i, sz))
  ELSE load_font_from_uncaught(i + 1, sz)

\* One pass of the for loop of load_font, from candidate i on.
RECURSIVE load_font_from(_, _)
load_font_from(i, sz) ==
  IF i > Len(FONT_CANDIDATES) THEN load_default
  ELSE IF exists(i) /\ ~truetype_raises(i, sz) THEN truetype(i, sz)
  ELSE load_font_from(i + 1, sz)

load_font(sz) == load_font_from(1, sz)

\* ------------------------------------------------------------ make_icon
\* draw.textbbox((0, 0), "B", font=font): <<left, top, right, bottom>>
textbbox(f) ==
  IF f.kind = "default"
  THEN <<0, 0, 6 * builtinPx, 11 * builtinPx>>
  ELSE LET left == f.size \div 20
           top == (2 * f.size) \div 10
           wd == CeilDiv(f.size * 6 * Pow2(stretch), 10)
           ht == CeilDiv(f.size * 7, 10)
       IN <<left, top, left + wd, top + ht>>

\* a canvas of the padded area only
new_image_padded(p) ==
  [mode |-> "RGB", size |-> <<(p * (100 - PADDING * 2)) \div 100, (p * (100 - PADDING * 2)) \div 100>>,
   bg |-> BG_COLOR, ops |-> <<>>]

\* Image.new("RGB", (px, px), BG_COLOR) with its ImageDraw
new_image(p) == [mode |-> "RGB", size |-> <<p, p>>, bg |-> BG_COLOR, ops |-> <<>>]

\* px * (1.0 - PADDING * 2), in hundredths of a pixel
target_of(p) == p * (100 - PADDING * 2)

\* int(target_height * 1.05)
initial_size(t) == (t * OVERSHOOT) \div 10000

\* int(font_size * 0.96)
shrink_size(s) == (s * SHRINK) \div 100

\* a fit test that forgets the width
fits_height_only(wd, ht, t) == 100 * ht <= t

\* w <= target_height and h <= target_height
fits(wd, ht, t) == 100 * wd <= t /\ 100 * ht <= t

\* while True: a loop without the retry bound
in_range_unbounded(i) == TRUE

\* for _ in range(40): another iteration is due
in_range(i) == i < FIT_TRIES

\* centring that forgets the box's origin
centre_no_origin(p, extent, origin) == p - extent

\* (px - w) / 2 - bbox[0], in half pixels
centre(p, extent, origin) == (p - extent) - 2 * origin

\* if px > 48
wants_shadow_above(p) == p > SHADOW_MIN_PX

\* if px >= 48
wants_shadow(p) == p >= SHADOW_MIN_PX

\* a shadow offset of one pixel at every size
shadow_offset_one(p) == 1

\* max(1, px // 96)
shadow_offset_of(p) == Max(1, p \div SHADOW_DIV)

\* draw.text(at, "B", fill=fill, font=font) on img; at is in half pixels
draw_text(im, at, fill, f) ==
  [im EXCEPT !.ops = Append(@, [at |-> at, text |-> "B", fill |-> fill, font |-> f])]

\* ------------------------------------------------------------- dicts
RECURSIVE dict_set(_, _, _)
\* d[k] = v: an existing key keeps its position, a new key goes last
dict_set(d, k, v) ==
  IF d = <<>> THEN << <<k, v>> >>
  ELSE IF Head(d)[1] = k THEN << <<k, v>> >> \o Tail(d)
  ELSE <<Head(d)>> \o dict_set(Tail(d), k, v)

\* a merge that keeps the first table only
dict_merge_first_only(a, b) == a

RECURSIVE dict_merge(_, _)
\* {**a, **b}
dict_merge(a, b) ==
  IF b = <<>> THEN a ELSE dict_merge(dict_set(a, Head(b)[1], Head(b)[2]), Tail(b))

\* os.path.join(BASE_DIR, rel_path), for a relative rel_path
join(dir, rel) == <<dir, rel>>

\* what img.save(full_path, "PNG") leaves at full_path
png(im) == [format |-> "PNG", image |-> im]

write(fs, path, content) ==
  [p \in DOMAIN fs \cup {path} |-> IF p = path THEN content ELSE fs[p]]

\* ------------------------------------------------------------- Init
\* The font installations make_icon is run against: the first k candidates are
\* unusable (missing and unreadable ones alternating), the rest are installed.
\* k = 5 leaves only the built-in font.  load_font itself is run against every
\* installation.
installation(k) ==
  [i \in CandidateIx |->
     IF i <= k THEN (IF i % 2 = 1 THEN "missing" ELSE "corrupt") ELSE "ok"]

Installations == {installation(k) : k \in 0..Len(FONT_CANDIDATES)}

NoLocals ==
  /\ target_height = None /\ font_size = None /\ font = None /\ it = None
  /\ bbox = None /\ w = None /\ h = None /\ x = None /\ y = None

Init ==
  /\ all_icons = None /\ idx = None /\ rel_path = None /\ size = None
  /\ full_path = None /\ img = None /\ NoLocals
  /\ checks = 0 /\ shrinks = 0
  /\ files = <<>> /\ saves = <<>> /\ stdout = <<>> /\ result = None
  /\ \/ /\ entry = "generate_all" /\ arg = None /\ px = None
        /\ pc = "generate_all"
        /\ fontFiles \in Installations
        /\ stretch \in 0..MaxStretch /\ builtinPx \in 1..MaxBuiltin
     \/ /\ entry = "make_icon" /\ arg \in 1..MaxPx /\ px = arg
        /\ pc = "make_icon"
        /\ fontFiles \in Installations
        /\ stretch \in 0..MaxStretch /\ builtinPx \in 1..MaxBuiltin
     \/ /\ entry = "load_font" /\ arg \in 0..MaxFontSize /\ px = None
        /\ pc = "load_font"
        /\ fontFiles \in [CandidateIx -> Status]
        /\ stretch = 0 /\ builtinPx = 1

\* ------------------------------------------------------------- load_font
\* a direct call load_font(size)
LoadFont ==
  /\ pc = "load_font"
  /\ result' = load_font(arg)
  /\ pc' = "returned"
  /\ UNCHANGED <<envVars, driverVars, iconVars, worldVars>>

\* ------------------------------------------------------------- make_icon
\* lines 63-64
NewImage ==
  /\ pc = "make_icon"
  /\ img' = new_image(px)
  /\ checks' = 0 /\ shrinks' = 0
  /\ pc' = "size"
  /\ UNCHANGED <<envVars, driverVars, px, target_height, font_size, font, it,
                 bbox, w, h, x, y, worldVars, result>>

\* lines 67-70
InitSize ==
  /\ pc = "size"
  /\ target_height' = target_of(px)
  /\ font_size' = initial_size(target_height')
  /\ font' = load_font(font_size')
  /\ it' = 0
  /\ pc' = "fit"
  /\ UNCHANGED <<envVars, driverVars, px, img, bbox, w, h, x, y, checks, shrinks,
                 worldVars, result>>

\* lines 73-78: one fit check
FitCheck ==
  /\ pc = "fit" /\ in_range(it)
  /\ bbox' = textbbox(font)
  /\ w' = bbox'[3] - bbox'[1]
  /\ h' = bbox'[4] - bbox'[2]
  /\ checks' = checks + 1
  /\ pc' = IF fits(w', h', target_height) THEN "measure" ELSE "shrink"
  /\ UNCHANGED <<envVars, driverVars, px, img, target_height, font_size, font, it,
                 x, y, shrinks, worldVars, result>>

\* a shrink step that reloads the font before the size is lowered
ShrinkStaleFont ==
  /\ pc = "shrink"
  /\ font_size' = shrink_size(font_size)
  /\ font' = load_font(font_size)
  /\ shrinks' = shrinks + 1
  /\ it' = it + 1
  /\ pc' = "fit"
  /\ UNCHANGED <<envVars, driverVars, px, img, target_height, bbox, w, h, x, y,
                 checks, worldVars, result>>

\* lines 79-80: one shrink step, and the loop variable's advance
Shrink ==
  /\ pc = "shrink"
  /\ font_size' = shrink_size(font_size)
  /\ font' = load_font(font_size')
  /\ shrinks' = shrinks + 1
  /\ it' = it + 1
  /\ pc' = "fit"
  /\ UNCHANGED <<envVars, driverVars, px, img, target_height, bbox, w, h, x, y,
                 checks, worldVars, result>>

\* line 73: range(40) is used up
LoopExhausted ==
  /\ pc = "fit" /\ ~in_range(it)
  /\ pc' = "measure"
  /\ UNCHANGED <<envVars, driverVars, iconVars, worldVars, result>>

\* lines 83-85
Remeasure ==
  /\ pc = "measure"
  /\ bbox' = textbbox(font)
  /\ w' = bbox'[3] - bbox'[1]
  /\ h' = bbox'[4] - bbox'[2]
  /\ pc' = "centre"
  /\ UNCHANGED <<envVars, driverVars, px, img, target_height, font_size, font, it,
                 x, y, checks, shrinks, worldVars, result>>

\* lines 88-89
Centre ==
  /\ pc = "centre"
  /\ x' = centre(px, w, bbox[1])
  /\ y' = centre(px, h, bbox[2])
  /\ pc' = "shadow"
  /\ UNCHANGED <<envVars, driverVars, px, img, target_height, font_size, font, it,
                 bbox, w, h, checks, shrinks, worldVars, result>>

\* lines 92-95
Shadow ==
  /\ pc = "shadow"
  /\ img' = IF wants_shadow(px)
            THEN LET shadow_offset == shadow_offset_of(px)
                 IN draw_text(img, <<x + 2 * shadow_offset, y + 2 * shadow_offset>>,
                              SHADOW_COLOR, font)
            ELSE img
  /\ pc' = "glyph"
  /\ UNCHANGED <<envVars, driverVars, px, target_height, font_size, font, it,
                 bbox, w, h, x, y, checks, shrinks, worldVars, result>>

\* line 97
Glyph ==
  /\ pc = "glyph"
  /\ img' = draw_text(img, <<x, y>>, FG_COLOR, font)
  /\ pc' = "return"
  /\ UNCHANGED <<envVars, driverVars, px, target_height, font_size, font, it,
                 bbox, w, h, x, y, checks, shrinks, worldVars, result>>

\* line 99: the frame is dropped; img goes to the caller
Return ==
  /\ pc = "return"
  /\ target_height' = None /\ font_size' = None /\ font' = None /\ it' = None
  /\ bbox' = None /\ w' = None /\ h' = None /\ x' = None /\ y' = None
  /\ IF entry = "make_icon"
     THEN result' = img /\ pc' = "returned"
     ELSE result' = result /\ pc' = "save"
  /\ UNCHANGED <<envVars, driverVars, px, img, checks, shrinks, worldVars>>

\* ------------------------------------------------------------- generate_all
\* line 103
GenerateAll ==
  /\ pc = "generate_all"
  /\ all_icons' = dict_merge(ANDROID_ICONS, IOS_ICONS)
  /\ idx' = 0
  /\ pc' = "for"
  /\ UNCHANGED <<envVars, rel_path, size, full_path, iconVars, worldVars, result>>

\* lines 104-106: the next item, its path, and the call make_icon(size)
ForNext ==
  /\ pc = "for" /\ idx < Len(all_icons)
  /\ idx' = idx + 1
  /\ rel_path' = all_icons[idx'][1]
  /\ size' = all_icons[idx'][2]
  /\ full_path' = join(BASE_DIR, rel_path')
  /\ px' = size'
  /\ pc' = "make_icon"
  /\ UNCHANGED <<envVars, all_icons, img, target_height, font_size, font, it,
                 bbox, w, h, x, y, checks, shrinks, worldVars, result>>

\* line 107, img.save succeeds
SaveOk ==
  /\ pc = "save"
  /\ files' = write(files, full_path, png(img))
  /\ saves' = Append(saves, [path |-> full_path, ok |-> TRUE, image |-> img])
  /\ pc' = "print"
  /\ UNCHANGED <<envVars, driverVars, iconVars, stdout, result>>

\* a failed save that is swallowed, the loop going on with the next item
SaveFailSwallowed ==
  /\ pc = "save"
  /\ files' = files
  /\ saves' = Append(saves, [path |-> full_path, ok |-> FALSE, image |-> img])
  /\ pc' = "for"
  /\ UNCHANGED <<envVars, driverVars, iconVars, stdout, result>>

\* line 107, img.save raises: nothing in generate_all catches it.  The file may
\* have been created and left incomplete.
SaveFail ==
  /\ pc = "save"
  /\ \/ files' = files
     \/ files' = write(files, full_path, [format |-> "PNG", image |-> "incomplete"])
  /\ saves' = Append(saves, [path |-> full_path, ok |-> FALSE, image |-> img])
  /\ pc' = "crashed"
  /\ UNCHANGED <<envVars, driverVars, iconVars, stdout, result>>

\* line 108
PrintItem ==
  /\ pc = "print"
  /\ stdout' = Append(stdout, <<"ok", size, rel_path>>)
  /\ pc' = "for"
  /\ UNCHANGED <<envVars, driverVars, iconVars, files, saves, result>>

\* line 110, after the last item
Finish ==
  /\ pc = "for" /\ idx >= Len(all_icons)
  /\ stdout' = Append(stdout, "All icons generated.")
  /\ pc' = "done"
  /\ UNCHANGED <<envVars, driverVars, iconVars, files, saves, result>>

Next ==
  \/ LoadFont
  \/ NewImage \/ InitSize \/ FitCheck \/ Shrink \/ LoopExhausted
  \/ Remeasure \/ Centre \/ Shadow \/ Glyph \/ Return
  \/ GenerateAll \/ ForNext \/ SaveOk \/ SaveFail \/ PrintItem \/ Finish

Spec == Init /\ [][Next]_vars


\* ------------------------------------------------------------- properties
\* the pixel sizes of the two tables
TableSizes == {e[2] : e \in {ANDROID_ICONS[i] : i \in DOMAIN ANDROID_ICONS}
                           \cup {IOS_ICONS[i] : i \in DOMAIN IOS_ICONS}}

\* make_icon has drawn and is about to return
Drawn == pc = "return"

\* the draw operation of the main glyph, and the font it was drawn with
GlyphOp == img.ops[Len(img.ops)]
FontDrawn == GlyphOp.font
WidthDrawn == textbbox(FontDrawn)[3] - textbbox(FontDrawn)[1]
HeightDrawn == textbbox(FontDrawn)[4] - textbbox(FontDrawn)[2]

\* the glyph drawn is within px * (1 - 2 * PADDING) in both directions
WithinTarget ==
  /\ 100 * WidthDrawn <= px * (100 - 2 * PADDING)
  /\ 100 * HeightDrawn <= px * (100 - 2 * PADDING)

\* the fitting loop ended at a fit check that passed (the break of line 78)
EndedByFit == checks = shrinks + 1

\* C1, as stated: for every px of the size tables and every font, the glyph in
\* the font finally used for drawing is within the target in width and height.
C1_FitsAlways == (Drawn /\ px \in TableSizes) => WithinTarget

\* C1, amended: whenever the fitting loop ended at a passed fit check, the glyph
\* in the font finally used for drawing is within the target in width and height.
C1_FitsWhenCheckPassed == (Drawn /\ EndedByFit) => WithinTarget

\* C1 witness: a table size that fitted only after shrinking
C1_Witness == Drawn /\ px \in TableSizes /\ EndedByFit /\ shrinks > 0 /\ WithinTarget

\* a make_icon call is under way and has not reached its return
InMakeIcon == pc \in {"make_icon", "size", "fit", "shrink", "measure", "centre", "shadow", "glyph"}

\* the number of steps a make_icon call can still need before its return
StepsLeft ==
  CASE pc = "make_icon" -> 2 * FIT_TRIES + 8
    [] pc = "size" -> 2 * FIT_TRIES + 7
    [] pc = "fit" -> 2 * (FIT_TRIES - it) + 6
    [] pc = "shrink" -> 2 * (FIT_TRIES - it) + 5
    [] pc = "measure" -> 4
    [] pc = "centre" -> 3
    [] pc = "shadow" -> 2
    [] pc = "glyph" -> 1
    [] OTHER -> 0

C2_Bounded ==
  /\ checks <= FIT_TRIES /\ shrinks <= FIT_TRIES
  /\ InMakeIcon => ENABLED Next
  /\ Drawn => /\ FontDrawn = font
              /\ font = load_font(font_size)
              /\ GlyphOp.fill = FG_COLOR
              /\ img.size = <<px, px>>

C2_Progress == InMakeIcon => (StepsLeft' < StepsLeft /\ StepsLeft' >= 0)

\* C2: a make_icon call does at most 40 fit checks and 40 shrink steps; until
\* its return a step is always possible and every step brings the return
\* nearer, so the call ends; when the 40 tries are used up the glyph is drawn
\* with the font loaded last and the image is returned.
C2_Terminates == [](C2_Bounded) /\ [][C2_Progress]_vars

\* C2 witness: all 40 checks failed and the icon was drawn all the same
C2_Witness == Drawn /\ checks = FIT_TRIES /\ shrinks = FIT_TRIES /\ ~WithinTarget

\* the entries declared by the two tables
Declared == {ANDROID_ICONS[i] : i \in DOMAIN ANDROID_ICONS}
              \cup {IOS_ICONS[i] : i \in DOMAIN IOS_ICONS}

\* C3: a completed generate_all has written one file per table entry, 20 in
\* all, at BASE_DIR joined with the entry's path, holding an image of the
\* entry's size, and nothing else.
C3_ExactlyTheTable ==
  pc = "done" =>
    /\ Cardinality(Declared) = 20
    /\ DOMAIN files = {<<BASE_DIR, e[1]>> : e \in Declared}
    /\ Cardinality(DOMAIN files) = 20
    /\ Len(saves) = 20
    /\ \A e \in Declared :
         /\ Cardinality({i \in DOMAIN saves : saves[i].path = <<BASE_DIR, e[1]>>}) = 1
         /\ files[<<BASE_DIR, e[1]>>].format = "PNG"
         /\ files[<<BASE_DIR, e[1]>>].image.size = <<e[2], e[2]>>
         /\ Len(files[<<BASE_DIR, e[1]>>].image.ops) >= 1

C3_Witness == pc = "done" /\ Cardinality(DOMAIN files) = 20 /\ Len(stdout) = 21

\* the shadow draw, when there is one, is the draw before the main glyph
HasShadow == Len(img.ops) = 2
ShadowOp == img.ops[1]

\* C4, as stated: a shadow is drawn exactly 1 pixel right of and below the main
\* glyph, before the main glyph, for every px of the size tables.
C4_OnePixel ==
  (Drawn /\ px \in TableSizes /\ HasShadow) =>
    /\ ShadowOp.fill = SHADOW_COLOR /\ GlyphOp.fill = FG_COLOR
    /\ ShadowOp.at = <<GlyphOp.at[1] + 2 * 1, GlyphOp.at[2] + 2 * 1>>

\* C4, amended: a shadow is drawn max(1, px // 96) pixels right of and below the
\* main glyph (1 pixel for px < 192), before the main glyph, in the same font.
C4_ScaledOffset ==
  (Drawn /\ HasShadow) =>
    /\ ShadowOp.fill = SHADOW_COLOR /\ GlyphOp.fill = FG_COLOR
    /\ ShadowOp.font = GlyphOp.font
    /\ LET off == IF px \div 96 >= 1 THEN px \div 96 ELSE 1
       IN ShadowOp.at = <<GlyphOp.at[1] + 2 * off, GlyphOp.at[2] + 2 * off>>

C4_Witness == Drawn /\ HasShadow /\ px = 192 /\ ShadowOp.at[1] = GlyphOp.at[1] + 4

\* C5: below 48 px nothing but the main glyph is drawn, which is what the
\* renderer without the shadow step draws; from 48 px on exactly one shadow draw
\* comes before the one foreground draw.
C5_ShadowSuppression ==
  Drawn =>
    IF px < 48
    THEN img.ops = << [at |-> <<x, y>>, text |-> "B", fill |-> FG_COLOR, font |-> font] >>
    ELSE /\ Len(img.ops) = 2
         /\ img.ops[1].fill = SHADOW_COLOR
         /\ img.ops[2] = [at |-> <<x, y>>, text |-> "B", fill |-> FG_COLOR, font |-> font]

C5_Witness == Drawn /\ px = 47 /\ Len(img.ops) = 1

\* C6: the midpoint of the bounding box of the glyph as drawn is less than one
\* pixel from the canvas centre on each axis (positions are in half pixels: the
\* doubled midpoint is at + left + right, the doubled centre is px).
C6_Centred ==
  Drawn =>
    LET b == textbbox(FontDrawn)
    IN /\ Abs(GlyphOp.at[1] + b[1] + b[3] - px) < 2
       /\ Abs(GlyphOp.at[2] + b[2] + b[4] - px) < 2

\* C6 witness: a glyph whose box does not start at the origin, after shrinking
C6_Witness ==
  Drawn /\ shrinks > 0 /\ textbbox(FontDrawn)[1] > 0 /\ textbbox(FontDrawn)[2] > 0

\* the candidates that exist and load at size sz
Usable(sz) == {i \in CandidateIx : fontFiles[i] = "ok" /\ sz > 0}

\* C7: load_font returns the first candidate that exists and loads, at the size
\* asked for, the default font when there is none, and never an error.
C7_FirstUsable ==
  (entry = "load_font" /\ pc = "returned") =>
    IF Usable(arg) = {}
    THEN result.kind = "default"
    ELSE LET first == CHOOSE i \in Usable(arg) : \A j \in Usable(arg) : i <= j
         IN result = [kind |-> "truetype", path |-> FONT_CANDIDATES[first], size |-> arg]

C7_Witness ==
  /\ entry = "load_font" /\ pc = "returned"
  /\ fontFiles[1] = "missing" /\ fontFiles[2] = "corrupt" /\ fontFiles[3] = "ok"
  /\ arg > 0 /\ result.path = FONT_CANDIDATES[3]

\* C8: the image make_icon returns is px wide and px high, on every path.
C8_SquarePx ==
  /\ pc \in {"return", "save"} => img.size = <<px, px>>
  /\ (entry = "make_icon" /\ pc = "returned") => result.size = <<arg, arg>>

\* C8 witness: a call that used up the 40 tries and drew a shadow
C8_Witness == pc = "save" /\ checks = FIT_TRIES /\ Len(img.ops) = 2 /\ img.size = <<px, px>>

\* C9: once a save has failed the run has ended there: it is the last save
\* attempted, no later entry was started, the closing message is not printed,
\* and the files of the earlier entries are as they were written.
Failed == \E i \in DOMAIN saves : ~saves[i].ok

C9_FailureEndsRun ==
  Failed =>
    /\ pc = "crashed"
    /\ ~saves[Len(saves)].ok
    /\ \A i \in 1..(Len(saves) - 1) :
         /\ saves[i].ok
         /\ saves[i].path # saves[Len(saves)].path
         /\ files[saves[i].path] = png(saves[i].image)
    /\ idx = Len(saves)
    /\ Len(stdout) = Len(saves) - 1
    /\ \A i \in DOMAIN stdout : stdout[i] # "All icons generated."

C9_Witness == pc = "crashed" /\ Len(saves) = 3 /\ DOMAIN files # {}

\* the k-th candidate size of make_icon(p)
RECURSIVE nth_size(_, _)
nth_size(p, k) ==
  IF k = 0 THEN (p * (100 - 2 * PADDING) * 105) \div 10000
  ELSE (nth_size(p, k - 1) * 96) \div 100

\* C10: the candidate size is s0 = floor(px * 0.78 * 1.05), s(k+1) =
\* floor(0.96 * s(k)), advanced once per failed check; it is never negative,
\* every shrink step lowers it while it is >= 1 and leaves it at 0; every fit
\* check measures the font loaded at the current candidate size.
C10_State ==
  pc \in {"fit", "shrink"} =>
    /\ font_size = nth_size(px, shrinks)
    /\ font_size >= 0
    /\ font = load_font(font_size)
    /\ checks = IF pc = "fit" THEN shrinks ELSE shrinks + 1

C10_Step ==
  (pc = "shrink") =>
    /\ font_size' >= 0
    /\ font_size >= 1 => font_size' < font_size
    /\ font_size = 0 => font_size' = 0
    /\ shrinks' = shrinks + 1

C10_SizeSequence == [](C10_State) /\ [][C10_Step]_vars

\* C10 witness: a check of a reloaded font after the size has reached 0
C10_Witness == pc = "fit" /\ shrinks > 1 /\ font_size = 0 /\ font.kind = "default"

====
